---- MODULE Spec2Model ----
(***************************************************************************)
(* Polygon analysis functions of carcara_geometry.py                      *)
(* (point_in_polygon, point_to_polygon_distance, polygon_centroid,        *)
(* polylabel, find_interior_point) as a state machine: a behaviour picks  *)
(* a vertex list, calls one of the functions on it and records the call's *)
(* outcome (a returned value, a raised exception or a loop that never     *)
(* ends).                                                                  *)
(*                                                                         *)
(* Numbers.  The functions compute on Python numbers.  Here a number is   *)
(* an exact rational <<num, den>> in lowest terms with den > 0, and the   *)
(* result of math.sqrt is kept exactly as the non-negative real whose     *)
(* square is a rational (see Sqrt).  Rounding of IEEE doubles is not      *)
(* modelled.                                                               *)
(***************************************************************************)
EXTENDS Integers, Sequences, FiniteSets, TLC

VARIABLES vertices, call, result

\* The ODBC module (carcara_odbc.py): what each thread is doing in a call of
\* run_query, run_command, run_query_to_tree or get_query_headers, the
\* connections pyodbc.connect has handed out with the driver calls made on
\* each, and what the module-level db_manager keeps.
VARIABLES session, connections, manager

odbcVars == <<session, connections, manager>>

vars == <<vertices, call, result, session, connections, manager>>

(***************************************************************************)
(* Exact rational arithmetic                                               *)
(***************************************************************************)
Abs(n) == IF n < 0 THEN -n ELSE n

RECURSIVE Gcd(_, _)
Gcd(a, b) == IF b = 0 THEN a ELSE Gcd(b, a % b)

\* The rational n/d (d # 0) in lowest terms, denominator positive.
Rat(n, d) ==
    LET g == Gcd(Abs(n), Abs(d))
        s == IF d < 0 THEN -1 ELSE 1
    IN  <<(s * n) \div g, (s * d) \div g>>

Num(n) == <<n, 1>>
Zero == Num(0)
One == Num(1)

RAdd(a, b) == Rat(a[1] * b[2] + b[1] * a[2], a[2] * b[2])
RSub(a, b) == Rat(a[1] * b[2] - b[1] * a[2], a[2] * b[2])
RMul(a, b) == Rat(a[1] * b[1], a[2] * b[2])
RDiv(a, b) == Rat(a[1] * b[2], a[2] * b[1])
RLt(a, b) == a[1] * b[2] < b[1] * a[2]
RLe(a, b) == a[1] * b[2] <= b[1] * a[2]
RMin(a, b) == IF RLe(a, b) THEN a ELSE b
RMax(a, b) == IF RLe(b, a) THEN a ELSE b
RSq(a) == RMul(a, a)

(***************************************************************************)
(* Real numbers that the functions produce besides rationals: the result  *)
(* of math.sqrt and float('inf').  A real is sgn * sqrt(sq); zero has     *)
(* sgn = 1.                                                                *)
(***************************************************************************)
FromRat(r) == [sgn |-> IF r[1] < 0 THEN -1 ELSE 1, sq |-> RSq(r), inf |-> FALSE]

\* math.sqrt(q) for a rational q >= 0.
Sqrt(q) == [sgn |-> 1, sq |-> q, inf |-> FALSE]

\* float('inf')
Infinity == [sgn |-> 1, sq |-> Zero, inf |-> TRUE]

DLt(a, b) ==
    IF a.inf THEN FALSE
    ELSE IF b.inf THEN TRUE
    ELSE IF a.sgn # b.sgn THEN a.sgn < b.sgn
    ELSE IF a.sgn = 1 THEN RLt(a.sq, b.sq)
    ELSE RLt(b.sq, a.sq)

DLe(a, b) == ~DLt(b, a)

\* Python's min(a, b): the first argument unless the second is smaller.
DMin(a, b) == IF DLt(b, a) THEN b ELSE a

(***************************************************************************)
(* Outcome of a call                                                       *)
(***************************************************************************)
Ok(v) == [kind |-> "ok", val |-> v]
Raise(e) == [kind |-> "raise", exc |-> e]
Hang == [kind |-> "hang"]

(***************************************************************************)
(* point_in_polygon                                                        *)
(***************************************************************************)
\* The body of the for loop for the edge (p1, p2).  st carries the locals
\* inside and xinters (bound tells whether xinters has been assigned) and
\* err, the exception raised so far.
\* Faulty variant: both ends of the Y bracket inclusive.
PipEdgeClosedBracket(x, y, p1, p2, st) ==
    IF /\ RLe(RMin(p1[2], p2[2]), y)
       /\ RLe(y, RMax(p1[2], p2[2]))
       /\ RLe(x, RMax(p1[1], p2[1]))
       /\ p1[2] # p2[2]
    THEN LET xi == RAdd(RDiv(RMul(RSub(y, p1[2]), RSub(p2[1], p1[1])),
                             RSub(p2[2], p1[2])), p1[1])
         IN  IF RLe(x, xi)
             THEN [st EXCEPT !.inside = ~st.inside, !.xinters = xi, !.bound = TRUE]
             ELSE [st EXCEPT !.xinters = xi, !.bound = TRUE]
    ELSE st

\* Faulty variant: both ends of the Y bracket exclusive.
PipEdgeOpenBracket(x, y, p1, p2, st) ==
    IF /\ RLt(RMin(p1[2], p2[2]), y)
       /\ RLt(y, RMax(p1[2], p2[2]))
       /\ RLe(x, RMax(p1[1], p2[1]))
    THEN LET xi == RAdd(RDiv(RMul(RSub(y, p1[2]), RSub(p2[1], p1[1])),
                             RSub(p2[2], p1[2])), p1[1])
         IN  IF RLe(x, xi)
             THEN [st EXCEPT !.inside = ~st.inside, !.xinters = xi, !.bound = TRUE]
             ELSE [st EXCEPT !.xinters = xi, !.bound = TRUE]
    ELSE st

\* Faulty variant: the lower end of the Y bracket is inclusive too, so a
\* horizontal edge at the height of the point passes it.
PipEdgeHorizontalPasses(x, y, p1, p2, st) ==
    IF /\ RLe(RMin(p1[2], p2[2]), y)
       /\ RLe(y, RMax(p1[2], p2[2]))
       /\ RLe(x, RMax(p1[1], p2[1]))
    THEN LET st1 == IF p1[2] # p2[2]
                    THEN [st EXCEPT !.xinters =
                              RAdd(RDiv(RMul(RSub(y, p1[2]), RSub(p2[1], p1[1])),
                                        RSub(p2[2], p1[2])), p1[1]),
                                    !.bound = TRUE]
                    ELSE st
         IN  IF p1[1] = p2[1] THEN [st1 EXCEPT !.inside = ~st1.inside]
             ELSE IF ~st1.bound THEN [st1 EXCEPT !.err = "UnboundLocalError"]
             ELSE IF RLe(x, st1.xinters) THEN [st1 EXCEPT !.inside = ~st1.inside]
             ELSE st1
    ELSE st

PipEdge(x, y, p1, p2, st) ==
    IF /\ RLt(RMin(p1[2], p2[2]), y)
       /\ RLe(y, RMax(p1[2], p2[2]))
       /\ RLe(x, RMax(p1[1], p2[1]))
    THEN LET st1 == IF p1[2] # p2[2]
                    THEN [st EXCEPT !.xinters =
                              RAdd(RDiv(RMul(RSub(y, p1[2]), RSub(p2[1], p1[1])),
                                        RSub(p2[2], p1[2])), p1[1]),
                                    !.bound = TRUE]
                    ELSE st
         IN  IF p1[1] = p2[1] THEN [st1 EXCEPT !.inside = ~st1.inside]
             ELSE IF ~st1.bound THEN [st1 EXCEPT !.err = "UnboundLocalError"]
             ELSE IF RLe(x, st1.xinters) THEN [st1 EXCEPT !.inside = ~st1.inside]
             ELSE st1
    ELSE st

\* Faulty variant: the loop stops at the last vertex and takes no
\* wrap-around edge back to the first.
RECURSIVE PipLoopNoWrap(_, _, _, _, _, _)
PipLoopNoWrap(i, p1, st, x, y, v) ==
    IF i > Len(v) - 1 \/ st.err # "none" THEN st
    ELSE LET p2 == v[i + 1]
         IN  PipLoopNoWrap(i + 1, p2, PipEdge(x, y, p1, p2, st), x, y, v)

\* for i in range(1, n + 1): p2 = vertices[i % n]; ...; p1 = p2
RECURSIVE PipLoop(_, _, _, _, _, _)
PipLoop(i, p1, st, x, y, v) ==
    IF i > Len(v) \/ st.err # "none" THEN st
    ELSE LET p2 == v[(i % Len(v)) + 1]
         IN  PipLoop(i + 1, p2, PipEdge(x, y, p1, p2, st), x, y, v)

point_in_polygon(x, y, v) ==
    IF Len(v) = 0 THEN Raise("IndexError")
    ELSE LET st == PipLoop(1, v[1],
                           [inside |-> FALSE, xinters |-> Zero, bound |-> FALSE,
                            err |-> "none"], x, y, v)
         IN  IF st.err # "none" THEN Raise(st.err) ELSE Ok(st.inside)

(***************************************************************************)
(* point_to_polygon_distance                                               *)
(***************************************************************************)
\* Faulty variant: the square root is forgotten.
SegmentDistanceSquared(x, y, a, b) ==
    LET dx == RSub(b[1], a[1])
        dy == RSub(b[2], a[2])
    IN  IF dx = Zero /\ dy = Zero
        THEN FromRat(RAdd(RSq(RSub(x, a[1])), RSq(RSub(y, a[2]))))
        ELSE LET t == RMax(Zero, RMin(One,
                        RDiv(RAdd(RMul(RSub(x, a[1]), dx), RMul(RSub(y, a[2]), dy)),
                             RAdd(RMul(dx, dx), RMul(dy, dy)))))
                 proj_x == RAdd(a[1], RMul(t, dx))
                 proj_y == RAdd(a[2], RMul(t, dy))
             IN  FromRat(RAdd(RSq(RSub(x, proj_x)), RSq(RSub(y, proj_y))))

\* Faulty variant: the projection parameter t is not clamped to [0, 1].
SegmentDistanceUnclamped(x, y, a, b) ==
    LET dx == RSub(b[1], a[1])
        dy == RSub(b[2], a[2])
    IN  IF dx = Zero /\ dy = Zero
        THEN Sqrt(RAdd(RSq(RSub(x, a[1])), RSq(RSub(y, a[2]))))
        ELSE LET t == RDiv(RAdd(RMul(RSub(x, a[1]), dx), RMul(RSub(y, a[2]), dy)),
                           RAdd(RMul(dx, dx), RMul(dy, dy)))
                 proj_x == RAdd(a[1], RMul(t, dx))
                 proj_y == RAdd(a[2], RMul(t, dy))
             IN  Sqrt(RAdd(RSq(RSub(x, proj_x)), RSq(RSub(y, proj_y))))

\* Faulty variant: a zero-length segment is given the distance 0.
SegmentDistanceDegenerateZero(x, y, a, b) ==
    LET dx == RSub(b[1], a[1])
        dy == RSub(b[2], a[2])
    IN  IF dx = Zero /\ dy = Zero
        THEN FromRat(Zero)
        ELSE LET t == RMax(Zero, RMin(One,
                        RDiv(RAdd(RMul(RSub(x, a[1]), dx), RMul(RSub(y, a[2]), dy)),
                             RAdd(RMul(dx, dx), RMul(dy, dy)))))
                 proj_x == RAdd(a[1], RMul(t, dx))
                 proj_y == RAdd(a[2], RMul(t, dy))
             IN  Sqrt(RAdd(RSq(RSub(x, proj_x)), RSq(RSub(y, proj_y))))

\* The distance the loop body computes for the segment (a, b).
SegmentDistance(x, y, a, b) ==
    LET dx == RSub(b[1], a[1])
        dy == RSub(b[2], a[2])
    IN  IF dx = Zero /\ dy = Zero
        THEN Sqrt(RAdd(RSq(RSub(x, a[1])), RSq(RSub(y, a[2]))))
        ELSE LET t == RMax(Zero, RMin(One,
                        RDiv(RAdd(RMul(RSub(x, a[1]), dx), RMul(RSub(y, a[2]), dy)),
                             RAdd(RMul(dx, dx), RMul(dy, dy)))))
                 proj_x == RAdd(a[1], RMul(t, dx))
                 proj_y == RAdd(a[2], RMul(t, dy))
             IN  Sqrt(RAdd(RSq(RSub(x, proj_x)), RSq(RSub(y, proj_y))))

\* Faulty variant: the loop also takes the segment from the last vertex
\* back to the first.
RECURSIVE DistLoopCyclic(_, _, _, _, _)
DistLoopCyclic(i, min_dist, x, y, v) ==
    IF i > Len(v) THEN min_dist
    ELSE DistLoopCyclic(i + 1,
                        DMin(min_dist,
                             SegmentDistance(x, y, v[i], v[(i % Len(v)) + 1])),
                        x, y, v)

\* for i in range(len(vertices) - 1): ...; min_dist = min(min_dist, dist)
RECURSIVE DistLoop(_, _, _, _, _)
DistLoop(i, min_dist, x, y, v) ==
    IF i > Len(v) - 1 THEN min_dist
    ELSE DistLoop(i + 1, DMin(min_dist, SegmentDistance(x, y, v[i], v[i + 1])),
                  x, y, v)

point_to_polygon_distance(x, y, v) == Ok(DistLoop(1, Infinity, x, y, v))

(***************************************************************************)
(* polygon_centroid                                                        *)
(***************************************************************************)
RECURSIVE SumCoord(_, _, _)
SumCoord(s, k, i) ==
    IF i > Len(s) THEN Zero ELSE RAdd(s[i][k], SumCoord(s, k, i + 1))

\* Faulty variant: a closing vertex is averaged too.
polygon_centroid_keep_last(v) ==
    IF Len(v) = 0 THEN Raise("IndexError")
    ELSE Ok(<<RDiv(SumCoord(v, 1, 1), Num(Len(v))),
              RDiv(SumCoord(v, 2, 1), Num(Len(v)))>>)

polygon_centroid(v) ==
    IF Len(v) = 0 THEN Raise("IndexError")
    ELSE LET unique_vertices ==
                 IF v[1] = v[Len(v)] THEN SubSeq(v, 1, Len(v) - 1) ELSE v
         IN  IF Len(unique_vertices) = 0 THEN Ok(<<Zero, Zero>>)
             ELSE Ok(<<RDiv(SumCoord(unique_vertices, 1, 1), Num(Len(unique_vertices))),
                       RDiv(SumCoord(unique_vertices, 2, 1), Num(Len(unique_vertices)))>>)

(***************************************************************************)
(* polylabel                                                               *)
(***************************************************************************)
\* The divisor of line 545: cell_size = max(min(width, height) / 20, precision)
GridDivisor == 20

\* precision=0.01, the default of polylabel and find_interior_point
DefaultPrecision == Rat(1, 100)

RECURSIVE MinCoord(_, _, _)
MinCoord(s, k, i) ==
    IF i = Len(s) THEN s[i][k] ELSE RMin(s[i][k], MinCoord(s, k, i + 1))

RECURSIVE MaxCoordOf(_, _, _)
MaxCoordOf(s, k, i) ==
    IF i = Len(s) THEN s[i][k] ELSE RMax(s[i][k], MaxCoordOf(s, k, i + 1))

\* xs = [v[0] for v in vertices[:-1]] ... cell_size = max(min(w, h) / 20, precision)
\* for a list of at least 2 vertices.
BoundingBox(v) ==
    LET body == SubSeq(v, 1, Len(v) - 1)
    IN  [min_x |-> MinCoord(body, 1, 1), max_x |-> MaxCoordOf(body, 1, 1),
         min_y |-> MinCoord(body, 2, 1), max_y |-> MaxCoordOf(body, 2, 1)]

\* Faulty variant: the shorter side is divided by 40.
CellSizeFortieth(v, precision) ==
    LET b == BoundingBox(v)
        width == RSub(b.max_x, b.min_x)
        height == RSub(b.max_y, b.min_y)
    IN  RMax(RDiv(RMin(width, height), Num(2 * GridDivisor)), precision)

CellSize(v, precision) ==
    LET b == BoundingBox(v)
        width == RSub(b.max_x, b.min_x)
        height == RSub(b.max_y, b.min_y)
    IN  RMax(RDiv(RMin(width, height), Num(GridDivisor)), precision)

\* best_point = None; best_distance = -1
NoBest == [found |-> FALSE, point |-> <<Zero, Zero>>, distance |-> FromRat(Num(-1)),
           err |-> "none"]

\* Faulty variant: the grid point is not tested with point_in_polygon.
VisitAnyPoint(x, y, best, v) ==
    LET distance == point_to_polygon_distance(x, y, v).val
    IN  IF DLt(best.distance, distance)
        THEN [best EXCEPT !.found = TRUE, !.point = <<x, y>>, !.distance = distance]
        ELSE best

\* Faulty variant: every inside grid point replaces the best one so far.
VisitKeepsLast(x, y, best, v) ==
    LET in == point_in_polygon(x, y, v)
    IN  IF in.kind = "raise" THEN [best EXCEPT !.err = in.exc]
        ELSE IF in.val
        THEN [best EXCEPT !.found = TRUE, !.point = <<x, y>>,
                          !.distance = point_to_polygon_distance(x, y, v).val]
        ELSE best

\* Faulty variant: the comparison is >=, so a later point with an equal
\* distance replaces the earlier one.
VisitLaterTieWins(x, y, best, v) ==
    LET in == point_in_polygon(x, y, v)
    IN  IF in.kind = "raise" THEN [best EXCEPT !.err = in.exc]
        ELSE IF in.val
        THEN LET distance == point_to_polygon_distance(x, y, v).val
             IN  IF DLe(best.distance, distance)
                 THEN [best EXCEPT !.found = TRUE, !.point = <<x, y>>,
                                   !.distance = distance]
                 ELSE best
        ELSE best

\* The body of the inner loop at the grid point (x, y).
Visit(x, y, best, v) ==
    LET in == point_in_polygon(x, y, v)
    IN  IF in.kind = "raise" THEN [best EXCEPT !.err = in.exc]
        ELSE IF in.val
        THEN LET distance == point_to_polygon_distance(x, y, v).val
             IN  IF DLt(best.distance, distance)
                 THEN [best EXCEPT !.found = TRUE, !.point = <<x, y>>,
                                   !.distance = distance]
                 ELSE best
        ELSE best

\* Faulty variant: the inner loop runs while x < max_x and leaves out the
\* points on the maximum bound.
RECURSIVE ScanRowExclusive(_, _, _, _, _, _)
ScanRowExclusive(x, y, best, max_x, cell_size, v) ==
    IF ~RLt(x, max_x) \/ best.err # "none" THEN best
    ELSE ScanRowExclusive(RAdd(x, cell_size), y, Visit(x, y, best, v), max_x,
                          cell_size, v)

\* while x <= max_x: ...; x += cell_size
RECURSIVE ScanRow(_, _, _, _, _, _)
ScanRow(x, y, best, max_x, cell_size, v) ==
    IF ~RLe(x, max_x) \/ best.err # "none" THEN best
    ELSE ScanRow(RAdd(x, cell_size), y, Visit(x, y, best, v), max_x, cell_size, v)

\* while y <= max_y: x = min_x; (inner loop); y += cell_size
RECURSIVE ScanRows(_, _, _, _, _)
ScanRows(y, best, b, cell_size, v) ==
    IF ~RLe(y, b.max_y) \/ best.err # "none" THEN best
    ELSE ScanRows(RAdd(y, cell_size),
                  ScanRow(b.min_x, y, best, b.max_x, cell_size, v), b, cell_size, v)

\* Faulty variant: the fallback keeps best_distance = -1.
polylabel_stale_fallback(v, precision) ==
    IF Len(v) <= 1 THEN Raise("ValueError")
    ELSE LET b == BoundingBox(v)
             cell_size == CellSize(v, precision)
         IN  IF RLe(cell_size, Zero) THEN Hang
             ELSE LET best == ScanRows(b.min_y, NoBest, b, cell_size, v)
                  IN  IF best.err # "none" THEN Raise(best.err)
                      ELSE IF ~best.found
                      THEN Ok(<<<<RDiv(RAdd(b.min_x, b.max_x), Num(2)),
                                  RDiv(RAdd(b.min_y, b.max_y), Num(2))>>,
                                best.distance>>)
                      ELSE Ok(<<best.point, best.distance>>)

polylabel(v, precision) ==
    IF Len(v) <= 1 THEN Raise("ValueError")
    ELSE LET b == BoundingBox(v)
             cell_size == CellSize(v, precision)
         IN  IF RLe(cell_size, Zero) THEN Hang
             ELSE LET best == ScanRows(b.min_y, NoBest, b, cell_size, v)
                  IN  IF best.err # "none" THEN Raise(best.err)
                      ELSE IF ~best.found
                      THEN Ok(<<<<RDiv(RAdd(b.min_x, b.max_x), Num(2)),
                                  RDiv(RAdd(b.min_y, b.max_y), Num(2))>>,
                                FromRat(Zero)>>)
                      ELSE Ok(<<best.point, best.distance>>)

(***************************************************************************)
(* find_interior_point                                                     *)
(***************************************************************************)
\* Faulty variant: the centroid fast path is skipped.
find_interior_point_no_fast_path(v, precision) ==
    LET centroid == polygon_centroid(v)
    IN  IF centroid.kind # "ok" THEN centroid
        ELSE LET in == point_in_polygon(centroid.val[1], centroid.val[2], v)
             IN  IF in.kind # "ok" THEN in
                 ELSE LET pl == polylabel(v, precision)
                      IN  IF pl.kind # "ok" THEN pl
                          ELSE Ok(<<pl.val[1], "polylabel">>)

find_interior_point(v, precision) ==
    LET centroid == polygon_centroid(v)
    IN  IF centroid.kind # "ok" THEN centroid
        ELSE LET in == point_in_polygon(centroid.val[1], centroid.val[2], v)
             IN  IF in.kind # "ok" THEN in
                 ELSE IF in.val THEN Ok(<<centroid.val, "centroid">>)
                 ELSE LET pl == polylabel(v, precision)
                      IN  IF pl.kind # "ok" THEN pl
                          ELSE Ok(<<pl.val[1], "polylabel">>)

(***************************************************************************)
(* Plane geometry used to choose the inputs and to state the properties   *)
(***************************************************************************)
Sgn(q) == IF q[1] > 0 THEN 1 ELSE IF q[1] < 0 THEN -1 ELSE 0

\* (a - o) x (b - o) and (a - o) . (b - o)
Cross(o, a, b) ==
    RSub(RMul(RSub(a[1], o[1]), RSub(b[2], o[2])),
         RMul(RSub(a[2], o[2]), RSub(b[1], o[1])))

Dot(o, a, b) ==
    RAdd(RMul(RSub(a[1], o[1]), RSub(b[1], o[1])),
         RMul(RSub(a[2], o[2]), RSub(b[2], o[2])))

\* p lies on the closed segment from a to b.
OnSegment(p, a, b) ==
    /\ Cross(a, b, p) = Zero
    /\ RLe(RMin(a[1], b[1]), p[1]) /\ RLe(p[1], RMax(a[1], b[1]))
    /\ RLe(RMin(a[2], b[2]), p[2]) /\ RLe(p[2], RMax(a[2], b[2]))

SegmentsMeet(a, b, c, d) ==
    \/ /\ Sgn(Cross(c, d, a)) * Sgn(Cross(c, d, b)) < 0
       /\ Sgn(Cross(a, b, c)) * Sgn(Cross(a, b, d)) < 0
    \/ OnSegment(a, c, d) \/ OnSegment(b, c, d)
    \/ OnSegment(c, a, b) \/ OnSegment(d, a, b)

IsClosed(v) == Len(v) >= 2 /\ v[1] = v[Len(v)]

\* The ring without its closing vertex.
Body(v) == IF IsClosed(v) THEN SubSeq(v, 1, Len(v) - 1) ELSE v

\* The successor of index i around the open ring r.
Succ(r, i) == (i % Len(r)) + 1

IsInjective(s) == \A i, j \in DOMAIN s : i # j => s[i] # s[j]

\* Not all vertices of r on one line.
NonCollinear(r) == \E i, j, k \in DOMAIN r : Cross(r[i], r[j], r[k]) # Zero

\* The open ring r is a simple polygon: distinct vertices, not all on a line,
\* consecutive edges meet only at their common vertex and the other edges
\* do not meet.
IsSimple(r) ==
    /\ Len(r) >= 3
    /\ IsInjective(r)
    /\ NonCollinear(r)
    /\ \A i \in DOMAIN r :
          LET a == r[i]
              b == r[Succ(r, i)]
              c == r[Succ(r, Succ(r, i))]
          IN  ~(Cross(b, a, c) = Zero /\ RLt(Zero, Dot(b, a, c)))
    /\ \A i, j \in DOMAIN r :
          (i # j /\ j # Succ(r, i) /\ i # Succ(r, j))
              => ~SegmentsMeet(r[i], r[Succ(r, i)], r[j], r[Succ(r, j)])

\* +1 when every vertex lies on or to the left of every edge of r, -1 when on
\* or to the right, 0 otherwise.
Orientation(r) ==
    IF \A i, k \in DOMAIN r : Sgn(Cross(r[i], r[Succ(r, i)], r[k])) >= 0 THEN 1
    ELSE IF \A i, k \in DOMAIN r : Sgn(Cross(r[i], r[Succ(r, i)], r[k])) <= 0 THEN -1
    ELSE 0

\* The open ring r is a convex polygon.
IsConvex(r) ==
    /\ Len(r) >= 3
    /\ IsInjective(r)
    /\ NonCollinear(r)
    /\ Orientation(r) # 0

\* p lies on an edge of the open ring r.
OnBoundary(p, r) == \E i \in DOMAIN r : OnSegment(p, r[i], r[Succ(r, i)])

\* p lies strictly on the interior side of every edge of the convex ring r.
StrictlyInsideConvex(p, r) ==
    \A i \in DOMAIN r : Sgn(Cross(r[i], r[Succ(r, i)], p)) = Orientation(r)

\* p lies in the closed triangle a, b, c.
InTriangle(p, a, b, c) ==
    LET d1 == Sgn(Cross(a, b, p))
        d2 == Sgn(Cross(b, c, p))
        d3 == Sgn(Cross(c, a, p))
    IN  \/ (d1 >= 0 /\ d2 >= 0 /\ d3 >= 0)
        \/ (d1 <= 0 /\ d2 <= 0 /\ d3 <= 0)

\* p lies inside or on the boundary of the simple quadrilateral r, which is
\* cut into two triangles along a diagonal that lies in it.
InQuad(p, r) ==
    IF Sgn(Cross(r[1], r[2], r[3])) * Sgn(Cross(r[1], r[3], r[4])) > 0
    THEN InTriangle(p, r[1], r[2], r[3]) \/ InTriangle(p, r[1], r[3], r[4])
    ELSE InTriangle(p, r[2], r[3], r[4]) \/ InTriangle(p, r[2], r[4], r[1])

\* The arithmetic mean of the vertices of the non-empty list r.
Mean(r) ==
    <<RDiv(SumCoord(r, 1, 1), Num(Len(r))), RDiv(SumCoord(r, 2, 1), Num(Len(r)))>>

(***************************************************************************)
(* Inputs                                                                  *)
(***************************************************************************)
\* Vertices have integer coordinates x in 0..MaxCoord and y in YCoords.
MaxCoord == 2
YCoords == 0..2

GridPts == {<<Num(i), Num(j)>> : i \in 0..MaxCoord, j \in YCoords}

PtLe(a, b) == RLt(a[1], b[1]) \/ (a[1] = b[1] /\ RLe(a[2], b[2]))

\* Every list of up to three distinct vertices (the empty list, a single
\* vertex, a segment, every triangle in every order, collinear triples).
ShortRings ==
    UNION {{s \in [1..n -> GridPts] : IsInjective(s)} : n \in 0..3}

\* Every simple quadrilateral, convex or concave, in both orientations,
\* listed from its lexicographically smallest vertex.
Quads ==
    {s \in [1..4 -> GridPts] :
        /\ IsSimple(s)
        /\ \A i \in 1..4 : PtLe(s[1], s[i])}

OpenRings == ShortRings \cup Quads

\* The same rings with the first vertex repeated as the last.
ClosedRings == {Append(s, s[1]) : s \in {r \in OpenRings : Len(r) >= 1}}

\* The square of the spec's example.
Square == <<<<Num(0), Num(0)>>, <<Num(10), Num(0)>>, <<Num(10), Num(10)>>,
            <<Num(0), Num(10)>>, <<Num(0), Num(0)>>>>

Rings == OpenRings \cup ClosedRings \cup {Square}

\* Test points: the half-integer points of the vertex grid and the two
\* points of the spec's example.
TestPoints ==
    {<<Rat(i, 2), Rat(j, 2)>> : i \in 0..(2 * MaxCoord), j \in 0..4}
        \cup {<<Num(5), Num(5)>>, <<Num(15), Num(5)>>}

\* Precisions: finer than, equal to and coarser than the vertex grid, and the
\* default for the square.
Precisions(v) ==
    {Rat(1, 2), Num(1), Num(3)} \cup (IF v = Square THEN {DefaultPrecision} ELSE {})

\* The list s with its k-th vertex repeated in place.
Dup(s, k) == SubSeq(s, 1, k) \o SubSeq(s, k, Len(s))

\* Lists with a repeated consecutive vertex (a zero-length segment): every
\* list of one to three distinct vertices that starts at its
\* lexicographically smallest one, with one vertex repeated, open and closed.
DegenerateRings ==
    LET base == {s \in ShortRings : Len(s) >= 1 /\ \A i \in DOMAIN s : PtLe(s[1], s[i])}
        open == {Dup(s, k) : <<s, k>> \in {sk \in base \X (1..3) : sk[2] <= Len(sk[1])}}
    IN  open \cup {Append(s, s[1]) : s \in open}

(***************************************************************************)
(* carcara_odbc.py: the connection manager and the four query functions.  *)
(* Every call of the driver (pyodbc) is one step; the driver decides      *)
(* whether the call succeeds or raises.  A thread runs one function at a  *)
(* time; its local variables are its entry of session.                    *)
(***************************************************************************)
Threads == {1, 2}

\* At most this many connections are opened in a behaviour.
MaxConnections == 2

\* The exceptions the driver raises, by the except clause that catches them:
\* pyodbc.DatabaseError, any other pyodbc.Error, any other Exception.
Exceptions == {"DatabaseError", "Error", "Exception"}

\* The Query / Command argument: None, or a string, kept as its list of
\* words and blanks.
NoneQuery == [none |-> TRUE, text |-> <<>>]
Text(s) == [none |-> FALSE, text |-> s]

\* None, the empty string and a string of blanks.
Blanks == {NoneQuery, Text(<<>>), Text(<<" ", " ">>)}

\* Arguments of run_query_to_tree and get_query_headers, of run_command and
\* of run_query.
Selects == Blanks \cup {Text(<<" ", "SELECT", " ", "1", " ">>)}
Commands == Blanks \cup {Text(<<"update", " ", "t">>)}
Queries == Selects \cup Commands

\* str.strip(): leading and trailing blanks removed.
RECURSIVE LStrip(_)
LStrip(s) == IF s # <<>> /\ Head(s) = " " THEN LStrip(Tail(s)) ELSE s

RECURSIVE RStrip(_)
RStrip(s) ==
    IF s # <<>> /\ s[Len(s)] = " " THEN RStrip(SubSeq(s, 1, Len(s) - 1)) ELSE s

Strip(s) == RStrip(LStrip(s))

\* str.lower() of a word.
Lower(w) ==
    CASE w = "SELECT" -> "select"
      [] OTHER -> w

\* not Query or not Query.strip()
IsBlank(q) == q.none \/ q.text = <<>> \/ Strip(q.text) = <<>>

\* Query.strip().lower().startswith(('select', 'show', 'describe', 'with'))
IsSelect(q) == Lower(Head(Strip(q.text))) \in {"select", "show", "describe", "with"}

\* Values the functions return.
NoValue == [type |-> "none"]
Str(s) == [type |-> "str", text |-> s]
List(kind) == [type |-> "list", of |-> kind]
Feedback(info) ==
    [type |-> "feedback", success |-> info.success,
     rows_affected |-> info.rows_affected, message |-> info.message]
Tree(branches) == [type |-> "tree", branches |-> branches]

\* result_info of run_command as it is initialised.
NoInfo == [success |-> FALSE, rows_affected |-> "None", message |-> ""]

\* The locals of a thread that is in none of the functions.
Idle ==
    [pc |-> "idle", op |-> "none", CToggle |-> FALSE, Query |-> NoneQuery,
     connection |-> 0, exc |-> "none", result_info |-> NoInfo, ret |-> NoValue]

\* No thread in a call, no connection handed out, nothing kept by db_manager
\* (the thread-local namespace that __init__ creates has no attribute).
OdbcIdle ==
    /\ session = [t \in Threads |-> Idle]
    /\ connections = <<>>
    /\ manager = [t \in Threads |-> {}]

\* The message of the except clause that catches the exception e.
ErrorMessage(op, e) ==
    CASE e = "DatabaseError" -> "Database error: "
      [] e = "Error" -> "ODBC error: "
      [] OTHER -> IF op \in {"run_query", "run_command"}
                  THEN "Unexpected error: " ELSE "Error: "

\* What the function op returns from its except clauses.
ErrorValue(op, e, info) ==
    CASE op = "run_query" -> Str(ErrorMessage(op, e))
      [] op = "run_command" ->
            Feedback([info EXCEPT !.message = ErrorMessage(op, e)])
      [] OTHER -> Tree(<<ErrorMessage(op, e)>>)

\* A driver call on a connection: the method, the thread that made it and
\* whether it returned (TRUE) or raised an exception that the code lets
\* through (FALSE).
Event(m, t, ok) == [m |-> m, by |-> t, ok |-> ok]

\* connections with the event ev added to the trace of connection c.
Record(c, ev) ==
    [connections EXCEPT ![c].trace = Append(@, ev)]

(***************************************************************************)
(* The state machine                                                       *)
(***************************************************************************)
NoCall == [op |-> "none", x |-> Zero, y |-> Zero, precision |-> Zero]

Init ==
    /\ vertices \in Rings
    /\ call = NoCall
    /\ result = <<"none", [kind |-> "none"]>>
    /\ OdbcIdle

Call_point_in_polygon ==
    /\ call.op = "none"
    /\ \E p \in TestPoints :
          /\ call' = [op |-> "point_in_polygon", x |-> p[1], y |-> p[2],
                      precision |-> Zero]
          /\ result' = <<"point_in_polygon", point_in_polygon(p[1], p[2], vertices)>>
    /\ UNCHANGED <<vertices, odbcVars>>

Call_point_to_polygon_distance ==
    /\ call.op = "none"
    /\ \E p \in TestPoints :
          /\ call' = [op |-> "point_to_polygon_distance", x |-> p[1], y |-> p[2],
                      precision |-> Zero]
          /\ result' = <<"point_to_polygon_distance", point_to_polygon_distance(p[1], p[2], vertices)>>
    /\ UNCHANGED <<vertices, odbcVars>>

Call_polygon_centroid ==
    /\ call.op = "none"
    /\ call' = [op |-> "polygon_centroid", x |-> Zero, y |-> Zero, precision |-> Zero]
    /\ result' = <<"polygon_centroid", polygon_centroid(vertices)>>
    /\ UNCHANGED <<vertices, odbcVars>>

Call_polylabel ==
    /\ call.op = "none"
    /\ \E pr \in Precisions(vertices) :
          /\ call' = [op |-> "polylabel", x |-> Zero, y |-> Zero, precision |-> pr]
          /\ result' = <<"polylabel", polylabel(vertices, pr)>>
    /\ UNCHANGED <<vertices, odbcVars>>

Call_find_interior_point ==
    /\ call.op = "none"
    /\ \E pr \in Precisions(vertices) :
          /\ call' = [op |-> "find_interior_point", x |-> Zero, y |-> Zero,
                      precision |-> pr]
          /\ result' = <<"find_interior_point", find_interior_point(vertices, pr)>>
    /\ UNCHANGED <<vertices, odbcVars>>

Next ==
    \/ Call_point_in_polygon
    \/ Call_point_to_polygon_distance
    \/ Call_polygon_centroid
    \/ Call_polylabel
    \/ Call_find_interior_point

Spec == Init /\ [][Next]_vars

\* The calls a caller makes again on the vertex list v: the point functions
\* at the vertex grid and at the two points of the spec's example.
Calls(v) ==
    {[op |-> o, x |-> p[1], y |-> p[2], precision |-> Zero] :
        o \in {"point_in_polygon", "point_to_polygon_distance"},
        p \in GridPts \cup {<<Num(5), Num(5)>>, <<Num(15), Num(5)>>}}
    \cup {[op |-> "polygon_centroid", x |-> Zero, y |-> Zero, precision |-> Zero]}
    \cup {[op |-> o, x |-> Zero, y |-> Zero, precision |-> pr] :
        o \in {"polylabel", "find_interior_point"}, pr \in Precisions(v)}

\* A caller that holds a vertex list and the arguments of one call, which it
\* makes any number of times.
InitRepeat ==
    /\ vertices \in Rings
    /\ call \in Calls(vertices)
    /\ result = <<"none", [kind |-> "none"]>>
    /\ OdbcIdle

Run_point_in_polygon ==
    /\ call.op = "point_in_polygon"
    /\ result' = <<call.op, point_in_polygon(call.x, call.y, vertices)>>
    /\ UNCHANGED <<vertices, call, odbcVars>>

Run_point_to_polygon_distance ==
    /\ call.op = "point_to_polygon_distance"
    /\ result' = <<call.op, point_to_polygon_distance(call.x, call.y, vertices)>>
    /\ UNCHANGED <<vertices, call, odbcVars>>

\* Faulty variant: the closing vertex is removed from the caller's list
\* instead of from a copy.
Run_polygon_centroid_in_place ==
    /\ call.op = "polygon_centroid"
    /\ result' = <<call.op, polygon_centroid(vertices)>>
    /\ vertices' = IF Len(vertices) >= 1 /\ vertices[1] = vertices[Len(vertices)]
                   THEN SubSeq(vertices, 1, Len(vertices) - 1)
                   ELSE vertices
    /\ UNCHANGED <<call, odbcVars>>

Run_polygon_centroid ==
    /\ call.op = "polygon_centroid"
    /\ result' = <<call.op, polygon_centroid(vertices)>>
    /\ UNCHANGED <<vertices, call, odbcVars>>

Run_polylabel ==
    /\ call.op = "polylabel"
    /\ result' = <<call.op, polylabel(vertices, call.precision)>>
    /\ UNCHANGED <<vertices, call, odbcVars>>

Run_find_interior_point ==
    /\ call.op = "find_interior_point"
    /\ result' = <<call.op, find_interior_point(vertices, call.precision)>>
    /\ UNCHANGED <<vertices, call, odbcVars>>

NextRepeat ==
    \/ Run_point_in_polygon
    \/ Run_point_to_polygon_distance
    \/ Run_polygon_centroid
    \/ Run_polylabel
    \/ Run_find_interior_point

\* Calls that are made again with the same arguments.
SpecRepeat == InitRepeat /\ [][NextRepeat]_vars

\* Precisions a caller may pass besides the positive ones: precision is an
\* unchecked float argument.
AnyPrecisions == {Num(-1), Zero, Rat(1, 2)}

\* Closed rings of one or two distinct vertices that start at their
\* lexicographically smaller vertex: single points and segments, among them
\* the horizontal and vertical ones, whose bounding box has no height or no
\* width.
SmallClosedRings ==
    {Append(s, s[1]) :
        s \in {r \in ShortRings : Len(r) \in {1, 2} /\ \A i \in DOMAIN r : PtLe(r[1], r[i])}}

\* The calls on v with the precision drawn from AnyPrecisions.
CallsAnyPrecision(v) ==
    {c \in Calls(v) : c.op \notin {"polylabel", "find_interior_point"}}
    \cup {[op |-> o, x |-> Zero, y |-> Zero, precision |-> pr] :
            o \in {"polylabel", "find_interior_point"}, pr \in AnyPrecisions}

InitAnyPrecision ==
    /\ vertices \in SmallClosedRings
    /\ call \in CallsAnyPrecision(vertices)
    /\ result = <<"none", [kind |-> "none"]>>
    /\ OdbcIdle

\* The calls with any precision, zero and negative included.
SpecAnyPrecision == InitAnyPrecision /\ [][NextRepeat]_vars

\* The same calls on closed rings only, the input polylabel is written for.
InitClosed ==
    /\ vertices \in ClosedRings \cup {Square}
    /\ call = NoCall
    /\ result = <<"none", [kind |-> "none"]>>
    /\ OdbcIdle

SpecClosed == InitClosed /\ [][Next]_vars

\* The same calls on vertex lists that hold a zero-length segment.
InitDegenerate ==
    /\ vertices \in DegenerateRings
    /\ call = NoCall
    /\ result = <<"none", [kind |-> "none"]>>
    /\ OdbcIdle

SpecDegenerate == InitDegenerate /\ [][Next]_vars

\* The same calls on open rings only (the first vertex is not repeated).
InitOpen ==
    /\ vertices \in OpenRings
    /\ call = NoCall
    /\ result = <<"none", [kind |-> "none"]>>
    /\ OdbcIdle

SpecOpen == InitOpen /\ [][Next]_vars

(***************************************************************************)
(* The ODBC state machine                                                  *)
(***************************************************************************)
geomVars == <<vertices, call, result>>

\* A call that goes on to connect is started only while the behaviour has a
\* connection left.
CanConnect ==
    Len(connections) + Cardinality({u \in Threads : session[u].pc = "connect"})
        < MaxConnections

\* Faulty variant: the query text is tested with "not Query" alone, so a
\* string of blanks goes on to the database.
EnteredWithoutStrip(op, c, q, whenOff, whenBlank) ==
    LET s == [Idle EXCEPT !.op = op, !.CToggle = c, !.Query = q]
    IN  IF ~c THEN [s EXCEPT !.pc = "return", !.ret = whenOff]
        ELSE IF q.none \/ q.text = <<>> THEN [s EXCEPT !.pc = "return", !.ret = whenBlank]
        ELSE [s EXCEPT !.pc = "connect"]

\* The locals after the guards every function starts with: CToggle, then
\* the query text.
Entered(op, c, q, whenOff, whenBlank) ==
    LET s == [Idle EXCEPT !.op = op, !.CToggle = c, !.Query = q]
    IN  IF ~c THEN [s EXCEPT !.pc = "return", !.ret = whenOff]
        ELSE IF IsBlank(q) THEN [s EXCEPT !.pc = "return", !.ret = whenBlank]
        ELSE [s EXCEPT !.pc = "connect"]

run_query(t) ==
    /\ session[t].pc = "idle"
    /\ \E c \in BOOLEAN, q \in Queries :
          /\ (c /\ ~IsBlank(q)) => CanConnect
          /\ session' = [session EXCEPT ![t] =
                 Entered("run_query", c, q,
                         Str("CToggle is False. No connection attempted."),
                         Str("Error: Query cannot be empty."))]
    /\ UNCHANGED <<connections, manager, geomVars>>

run_command(t) ==
    /\ session[t].pc = "idle"
    /\ \E c \in BOOLEAN, q \in Commands :
          /\ (c /\ ~IsBlank(q)) => CanConnect
          /\ session' = [session EXCEPT ![t] =
                 Entered("run_command", c, q,
                         Feedback([NoInfo EXCEPT !.message =
                             "CToggle is False. No connection was attempted."]),
                         Feedback([NoInfo EXCEPT !.message =
                             "Command cannot be empty."]))]
    /\ UNCHANGED <<connections, manager, geomVars>>

run_query_to_tree(t) ==
    /\ session[t].pc = "idle"
    /\ \E c \in BOOLEAN, q \in Selects :
          /\ (c /\ ~IsBlank(q)) => CanConnect
          /\ session' = [session EXCEPT ![t] =
                 Entered("run_query_to_tree", c, q, Tree(<<>>), Tree(<<>>))]
    /\ UNCHANGED <<connections, manager, geomVars>>

get_query_headers(t) ==
    /\ session[t].pc = "idle"
    /\ \E c \in BOOLEAN, q \in Selects :
          /\ (c /\ ~IsBlank(q)) => CanConnect
          /\ session' = [session EXCEPT ![t] =
                 Entered("get_query_headers", c, q, Tree(<<>>), Tree(<<>>))]
    /\ UNCHANGED <<connections, manager, geomVars>>

\* The driver call m of thread t on its connection raises: the exception
\* leaves the body of the with statement and enters the except clause of
\* get_connection.
Raises(t, m) ==
    \E e \in Exceptions :
        /\ connections' = Record(session[t].connection, Event(m, t, FALSE))
        /\ session' = [session EXCEPT ![t].pc = "rollback", ![t].exc = e]

\* The driver call m of thread t on its connection returns and the thread
\* goes on with the locals s.
Returns(t, m, s) ==
    /\ connections' = Record(session[t].connection, Event(m, t, TRUE))
    /\ session' = [session EXCEPT ![t] = s]

\* Faulty variant: the manager keeps the connection in a plain attribute
\* and hands the same one to every caller while it is there.
get_connection_shared(t) ==
    /\ session[t].pc = "connect"
    /\ \/ \E e \in Exceptions :
             /\ manager[1] = {}
             /\ session' = [session EXCEPT
                    ![t].pc = "return", ![t].exc = e,
                    ![t].ret = ErrorValue(session[t].op, e, session[t].result_info)]
             /\ UNCHANGED <<connections, manager>>
       \/ /\ manager[1] = {}
          /\ connections' = Append(connections,
                                   [trace |-> <<Event("connect", t, TRUE)>>])
          /\ manager' = [manager EXCEPT ![1] = {Len(connections) + 1}]
          /\ session' = [session EXCEPT
                 ![t].pc = "autocommit", ![t].connection = Len(connections) + 1]
       \/ \E c \in manager[1] :
             /\ session' = [session EXCEPT ![t].pc = "cursor", ![t].connection = c]
             /\ UNCHANGED <<connections, manager>>
    /\ UNCHANGED geomVars

\* get_connection: unencode_password and pyodbc.connect.  When either raises
\* there is no connection: nothing is rolled back or closed and the caller's
\* except clause returns.
get_connection(t) ==
    /\ session[t].pc = "connect"
    /\ \/ \E e \in Exceptions :
             /\ session' = [session EXCEPT
                    ![t].pc = "return", ![t].exc = e,
                    ![t].ret = ErrorValue(session[t].op, e, session[t].result_info)]
             /\ UNCHANGED connections
       \/ /\ connections' = Append(connections,
                                   [trace |-> <<Event("connect", t, TRUE)>>])
          /\ session' = [session EXCEPT
                 ![t].pc = "autocommit", ![t].connection = Len(connections) + 1]
    /\ UNCHANGED <<manager, geomVars>>

\* connection.autocommit = False
Autocommit(t) ==
    /\ session[t].pc = "autocommit"
    /\ \/ Returns(t, "autocommit", [session[t] EXCEPT !.pc = "cursor"])
       \/ Raises(t, "autocommit")
    /\ UNCHANGED <<manager, geomVars>>

\* cursor = connection.cursor()
Cursor(t) ==
    /\ session[t].pc = "cursor"
    /\ \/ Returns(t, "cursor", [session[t] EXCEPT !.pc = "execute"])
       \/ Raises(t, "cursor")
    /\ UNCHANGED <<manager, geomVars>>

\* Faulty variant: run_command leaves the with statement without commit.
ExecuteWithoutCommit(t) ==
    LET s == session[t]
    IN  /\ s.pc = "execute"
        /\ \/ Returns(t, "execute",
                 CASE s.op = "run_query" ->
                        IF IsSelect(s.Query) THEN [s EXCEPT !.pc = "fetchall"]
                        ELSE [s EXCEPT !.pc = "close",
                                 !.ret = Str("Query executed successfully. Rows affected: ")]
                   [] s.op = "run_command" ->
                        [s EXCEPT !.pc = "close",
                            !.result_info = [success |-> TRUE,
                                             rows_affected |-> "rowcount",
                                             message |-> "Command executed successfully."]]
                   [] s.op = "run_query_to_tree" -> [s EXCEPT !.pc = "fetchall"]
                   [] s.op = "get_query_headers" -> [s EXCEPT !.pc = "description"])
           \/ Raises(t, "execute")
        /\ UNCHANGED <<manager, geomVars>>

\* Faulty variant: run_query commits a statement that is not a SELECT.
ExecuteQueryCommits(t) ==
    LET s == session[t]
    IN  /\ s.pc = "execute"
        /\ \/ Returns(t, "execute",
                 CASE s.op = "run_query" ->
                        IF IsSelect(s.Query) THEN [s EXCEPT !.pc = "fetchall"]
                        ELSE [s EXCEPT !.pc = "commit",
                                 !.ret = Str("Query executed successfully. Rows affected: ")]
                   [] s.op = "run_command" ->
                        [s EXCEPT !.pc = "commit",
                            !.result_info = [success |-> TRUE,
                                             rows_affected |-> "rowcount",
                                             message |-> "Command executed successfully."]]
                   [] s.op = "run_query_to_tree" -> [s EXCEPT !.pc = "fetchall"]
                   [] s.op = "get_query_headers" -> [s EXCEPT !.pc = "description"])
           \/ Raises(t, "execute")
        /\ UNCHANGED <<manager, geomVars>>

\* cursor.execute(Query) and what follows it up to the next driver call.
Execute(t) ==
    LET s == session[t]
    IN  /\ s.pc = "execute"
        /\ \/ Returns(t, "execute",
                 CASE s.op = "run_query" ->
                        IF IsSelect(s.Query) THEN [s EXCEPT !.pc = "fetchall"]
                        ELSE [s EXCEPT !.pc = "close",
                                 !.ret = Str("Query executed successfully. Rows affected: ")]
                   [] s.op = "run_command" ->
                        [s EXCEPT !.pc = "commit",
                            !.result_info = [success |-> TRUE,
                                             rows_affected |-> "rowcount",
                                             message |-> "Command executed successfully."]]
                   [] s.op = "run_query_to_tree" -> [s EXCEPT !.pc = "fetchall"]
                   [] s.op = "get_query_headers" -> [s EXCEPT !.pc = "description"])
           \/ Raises(t, "execute")
        /\ UNCHANGED <<manager, geomVars>>

\* cursor.fetchall() (in run_query_to_tree after the nextset loop): some rows
\* or none.
Fetchall(t) ==
    LET s == session[t]
    IN  /\ s.pc = "fetchall"
        /\ \/ \E rows \in {"rows", "no rows"} :
                 Returns(t, "fetchall",
                     [s EXCEPT !.pc = "close",
                         !.ret = IF s.op = "run_query"
                                 THEN IF rows = "rows" THEN List("first column")
                                      ELSE List("nothing")
                                 ELSE IF rows = "rows" THEN Tree(<<"columns">>)
                                      ELSE Tree(<<>>)])
           \/ Raises(t, "fetchall")
        /\ UNCHANGED <<manager, geomVars>>

\* get_query_headers: the nextset loop and cursor.description, which names
\* the columns or is empty.
Description(t) ==
    LET s == session[t]
    IN  /\ s.pc = "description"
        /\ \/ \E desc \in {"headers", "col_0"} :
                 Returns(t, "nextset", [s EXCEPT !.pc = "close", !.ret = Tree(<<desc>>)])
           \/ Raises(t, "nextset")
        /\ UNCHANGED <<manager, geomVars>>

\* run_command: connection.commit()
Commit(t) ==
    /\ session[t].pc = "commit"
    /\ \/ Returns(t, "commit", [session[t] EXCEPT !.pc = "close"])
       \/ Raises(t, "commit")
    /\ UNCHANGED <<manager, geomVars>>

\* Faulty variant: close() sits in the try block, so the error path leaves
\* without it.
RollbackWithoutClose(t) ==
    LET s == session[t]
    IN  /\ s.pc = "rollback"
        /\ connections' = Record(s.connection, Event("rollback", t, TRUE))
        /\ session' = [session EXCEPT ![t].pc = "return",
               ![t].ret = ErrorValue(s.op, s.exc, s.result_info)]
        /\ UNCHANGED <<manager, geomVars>>

\* get_connection, except clause: connection.rollback().  An error of
\* rollback() itself is swallowed on the spot, so the step is the same
\* whether it raises; the exception in flight is raised again.
Rollback(t) ==
    /\ session[t].pc = "rollback"
    /\ connections' = Record(session[t].connection, Event("rollback", t, TRUE))
    /\ session' = [session EXCEPT ![t].pc = "close"]
    /\ UNCHANGED <<manager, geomVars>>

\* get_connection, finally clause: connection.close(), whose own error is
\* swallowed too.  Then the function returns: from its except clause when
\* an exception is in flight, else the value the body prepared.
Close(t) ==
    LET s == session[t]
    IN  /\ s.pc = "close"
        /\ connections' = Record(s.connection, Event("close", t, TRUE))
        /\ session' = [session EXCEPT ![t].pc = "return",
               ![t].ret = IF s.exc # "none"
                          THEN ErrorValue(s.op, s.exc, s.result_info)
                          ELSE IF s.op = "run_command" THEN Feedback(s.result_info)
                          ELSE s.ret]
        /\ UNCHANGED <<manager, geomVars>>

\* close() has been called on the connection c.
CloseCalled(c) == \E i \in DOMAIN connections[c].trace : connections[c].trace[i].m = "close"

\* The value goes to the caller and the locals are gone.  Nothing refers to
\* the connection of the call any more; once closed, its trace is dropped.
Return(t) ==
    LET c == session[t].connection
    IN  /\ session[t].pc = "return"
        /\ session' = [session EXCEPT ![t] = Idle]
        /\ connections' = IF c # 0 /\ CloseCalled(c)
                          THEN [connections EXCEPT ![c].trace = <<>>]
                          ELSE connections
        /\ UNCHANGED <<manager, geomVars>>

NextOdbc ==
    \E t \in Threads :
        \/ run_query(t)
        \/ run_command(t)
        \/ run_query_to_tree(t)
        \/ get_query_headers(t)
        \/ get_connection(t)
        \/ Autocommit(t)
        \/ Cursor(t)
        \/ Execute(t)
        \/ Fetchall(t)
        \/ Description(t)
        \/ Commit(t)
        \/ Rollback(t)
        \/ Close(t)
        \/ Return(t)

InitOdbc ==
    /\ vertices = <<>>
    /\ call = NoCall
    /\ result = <<"none", [kind |-> "none"]>>
    /\ OdbcIdle

SpecOdbc == InitOdbc /\ [][NextOdbc]_vars

(***************************************************************************)
(* carcara_charts.py: get_indexed_value                                    *)
(***************************************************************************)
\* Python values: None, an int, a str, a list of values.
PyNone == [type |-> "NoneType"]
PyInt(n) == [type |-> "int", int |-> n]
PyStr(s) == [type |-> "str", str |-> s]
PyList(items) == [type |-> "list", items |-> items]

\* hasattr(v, '__iter__')
HasIter(v) == v.type \in {"list", "str"}

get_indexed_value(param_list, index, default) ==
    IF param_list = PyNone THEN Ok(default)
    ELSE IF ~HasIter(param_list) \/ param_list.type = "str" THEN Ok(param_list)
    ELSE LET items == param_list.items
         IN  IF index < Len(items)
             THEN Ok(IF items[index + 1] # PyNone THEN items[index + 1] ELSE default)
             ELSE IF Len(items) > 0
             THEN Ok(IF items[Len(items)] # PyNone THEN items[Len(items)] ELSE default)
             ELSE Ok(default)

\* Lists of up to MaxItems items, each None or one of two ints; indices up
\* to MaxIndex.
MaxItems == 3
MaxIndex == 5

Items == {PyNone, PyInt(10), PyInt(20)}

Params ==
    {PyNone, PyInt(7), PyStr("red")}
        \cup {PyList(s) : s \in UNION {[1..n -> Items] : n \in 0..MaxItems}}

Defaults == {PyInt(0), PyStr("black")}

InitCharts ==
    /\ vertices = <<>>
    /\ call = NoCall
    /\ result = <<"none", [kind |-> "none"]>>
    /\ OdbcIdle

Call_get_indexed_value ==
    /\ call.op = "none"
    /\ \E p \in Params, i \in 0..MaxIndex, d \in Defaults :
          /\ call' = [op |-> "get_indexed_value", param_list |-> p, index |-> i,
                      default |-> d]
          /\ result' = <<"get_indexed_value", get_indexed_value(p, i, d)>>
    /\ UNCHANGED <<vertices, odbcVars>>

NextCharts == Call_get_indexed_value

SpecCharts == InitCharts /\ [][NextCharts]_vars

(***************************************************************************)
(* Properties                                                              *)
(***************************************************************************)
\* The argument point of a point_in_polygon or point_to_polygon_distance call.
ArgPoint == <<call.x, call.y>>

\* What the call returned or raised.
Outcome == result[2]

\* The grid of step CellSize over the bounding box, stated as a set: the
\* points (min_x + i * c, min_y + j * c), i, j >= 0, that lie in the box.
GridOf(v, precision) ==
    LET b == BoundingBox(v)
        c == CellSize(v, precision)
        nx == RDiv(RSub(b.max_x, b.min_x), c)
        ny == RDiv(RSub(b.max_y, b.min_y), c)
    IN  {<<RAdd(b.min_x, RMul(Num(i), c)), RAdd(b.min_y, RMul(Num(j), c))>> :
            i \in 0..(nx[1] \div nx[2]), j \in 0..(ny[1] \div ny[2])}

IsInside(p, v) == point_in_polygon(p[1], p[2], v) = Ok(TRUE)

AnyInside(v, precision) == \E g \in GridOf(v, precision) : IsInside(g, v)

\* The distance from p to the closed segment a, b, the classical way: the
\* nearer end when the foot of the perpendicular falls outside the segment,
\* else the distance to the line.
RefSegmentDistance(p, a, b) ==
    IF a = b \/ RLe(Dot(a, p, b), Zero)
    THEN Sqrt(RAdd(RSq(RSub(p[1], a[1])), RSq(RSub(p[2], a[2]))))
    ELSE IF RLe(Dot(b, p, a), Zero)
    THEN Sqrt(RAdd(RSq(RSub(p[1], b[1])), RSq(RSub(p[2], b[2]))))
    ELSE Sqrt(RDiv(RSq(Cross(a, b, p)), Dot(a, b, b)))

\* C1: find_interior_point returns (polygon_centroid, "centroid") exactly when
\* point_in_polygon holds at the centroid, and otherwise the point of
\* polylabel with the tag "polylabel"; the result is a pair and the tag is one
\* of the two.
C1_FindInteriorPointContract ==
    (call.op = "find_interior_point" /\ Len(vertices) >= 3) =>
        LET c == polygon_centroid(vertices)
            in == IsInside(c.val, vertices)
            pl == polylabel(vertices, call.precision)
        IN  /\ Outcome.kind = "ok"
            /\ Len(Outcome.val) = 2
            /\ Outcome.val[2] \in {"centroid", "polylabel"}
            /\ (Outcome.val[2] = "centroid") <=> in
            /\ in => Outcome.val[1] = c.val
            /\ ~in => (pl.kind = "ok" /\ Outcome.val[1] = pl.val[1])

C1_Witness ==
    /\ call.op = "find_interior_point"
    /\ Len(vertices) >= 3
    /\ Outcome.kind = "ok"
    /\ Outcome.val[2] = "polylabel"
    /\ Outcome.val[1] # polygon_centroid(vertices).val

\* C2: when some scanned grid point satisfies point_in_polygon, the point
\* polylabel returns satisfies it too; the distance polylabel returns is
\* never negative.
C2_PolylabelPointInside ==
    (call.op = "polylabel" /\ Outcome.kind = "ok") =>
        /\ DLe(FromRat(Zero), Outcome.val[2])
        /\ AnyInside(vertices, call.precision) => IsInside(Outcome.val[1], vertices)

C2_Witness ==
    /\ call.op = "polylabel"
    /\ Len(vertices) >= 4
    /\ Outcome.kind = "ok"
    /\ AnyInside(vertices, call.precision)
    /\ \E g \in GridOf(vertices, call.precision) : ~IsInside(g, vertices)
    /\ DLt(FromRat(Zero), Outcome.val[2])

\* C3: for a convex polygon given as a closed ring, point_in_polygon holds at
\* polygon_centroid, and find_interior_point returns that centroid with the
\* tag "centroid".
C3_ConvexCentroidInside ==
    (/\ call.op = "find_interior_point"
     /\ IsClosed(vertices)
     /\ IsConvex(Body(vertices)))
        => /\ IsInside(polygon_centroid(vertices).val, vertices)
           /\ Outcome.kind = "ok"
           /\ Outcome.val = <<Mean(Body(vertices)), "centroid">>

C3_Witness ==
    /\ IsClosed(vertices) /\ IsConvex(Body(vertices))
    /\ Len(vertices) = 5
    /\ vertices # Square
    /\ call.op = "find_interior_point"
    /\ Outcome.kind = "ok"
    /\ Outcome.val[2] = "centroid"

\* C4: for a simple concave polygon whose vertex centroid lies outside it,
\* find_interior_point returns the tag "polylabel" and a point that
\* satisfies point_in_polygon.
C4_ConcaveInteriorPoint ==
    (/\ call.op = "find_interior_point"
     /\ IsClosed(vertices)
     /\ Len(vertices) = 5
     /\ IsSimple(Body(vertices))
     /\ ~IsConvex(Body(vertices))
     /\ ~InQuad(Mean(Body(vertices)), Body(vertices)))
        => /\ Outcome.kind = "ok"
           /\ Outcome.val[2] = "polylabel"
           /\ IsInside(Outcome.val[1], vertices)

\* C5: for a convex polygon, given open or closed, and a point off its
\* boundary, point_in_polygon is True exactly when the point lies strictly
\* on the interior side of every edge.
C5_ConvexHalfPlaneTest ==
    (/\ call.op = "point_in_polygon"
     /\ IsConvex(Body(vertices))
     /\ ~OnBoundary(ArgPoint, Body(vertices)))
        => Outcome = Ok(StrictlyInsideConvex(ArgPoint, Body(vertices)))

\* The ray from the point passes through a vertex of a convex polygon that
\* contains the point.
C5_Witness ==
    /\ call.op = "point_in_polygon"
    /\ IsConvex(Body(vertices))
    /\ ~OnBoundary(ArgPoint, Body(vertices))
    /\ StrictlyInsideConvex(ArgPoint, Body(vertices))
    /\ \E k \in DOMAIN vertices :
          vertices[k][2] = call.y /\ RLt(call.x, vertices[k][1])
    /\ Outcome = Ok(TRUE)

\* C6: the square (0,0),(10,0),(10,10),(0,10),(0,0): (5,5) is inside,
\* (15,5) is not, the distance of (5,5) is 5 and the centroid is (5,5).
C6_SquareExample ==
    vertices = Square =>
        /\ (call.op = "point_in_polygon" /\ ArgPoint = <<Num(5), Num(5)>>)
              => Outcome = Ok(TRUE)
        /\ (call.op = "point_in_polygon" /\ ArgPoint = <<Num(15), Num(5)>>)
              => Outcome = Ok(FALSE)
        /\ (call.op = "point_to_polygon_distance" /\ ArgPoint = <<Num(5), Num(5)>>)
              => Outcome = Ok(FromRat(Num(5)))
        /\ call.op = "polygon_centroid" => Outcome = Ok(<<Num(5), Num(5)>>)

C6_Witness ==
    /\ vertices = Square
    /\ call.op = "point_to_polygon_distance"
    /\ ArgPoint = <<Num(5), Num(5)>>
    /\ Outcome.kind = "ok"

C8_CentroidIsVertexMean ==
    (call.op = "polygon_centroid" /\ Len(vertices) >= 2) =>
        /\ Outcome = Ok(Mean(IF vertices[1] = vertices[Len(vertices)]
                            THEN SubSeq(vertices, 1, Len(vertices) - 1)
                            ELSE vertices))
        /\ ~IsClosed(vertices) =>
              polygon_centroid(Append(vertices, vertices[1])) = Outcome

C8_Witness ==
    /\ call.op = "polygon_centroid"
    /\ Len(vertices) = 5
    /\ IsClosed(vertices)
    /\ Outcome.kind = "ok"
    /\ Outcome.val # Mean(vertices)

\* C9: when the scan ends without a grid point that satisfies
\* point_in_polygon, polylabel returns the midpoint of the bounding box with
\* distance 0 and raises nothing.
C9_PolylabelFallback ==
    (/\ call.op = "polylabel"
     /\ Len(vertices) >= 2
     /\ RLt(Zero, CellSize(vertices, call.precision))
     /\ ~AnyInside(vertices, call.precision))
        => LET b == BoundingBox(vertices)
           IN  Outcome = Ok(<<<<RDiv(RAdd(b.min_x, b.max_x), Num(2)),
                               RDiv(RAdd(b.min_y, b.max_y), Num(2))>>,
                             FromRat(Zero)>>)

C9_Witness ==
    /\ call.op = "polylabel"
    /\ IsClosed(vertices)
    /\ IsSimple(Body(vertices))
    /\ ~AnyInside(vertices, call.precision)
    /\ Outcome.kind = "ok"
    /\ Outcome.val[2] = FromRat(Zero)

\* C10: polygon_centroid of the empty vertex list returns (0, 0) and raises
\* nothing.
C10_EmptyListCentroid ==
    (call.op = "polygon_centroid" /\ Len(vertices) = 0) =>
        (Outcome.kind = "ok" /\ Outcome.val = <<Zero, Zero>>)

\* C11: point_in_polygon, point_to_polygon_distance, polylabel and
\* find_interior_point raise no error on a vertex list of 0, 1 or 2
\* vertices; each returns a value.
C11_ShortListsRaiseNothing ==
    (/\ call.op \in {"point_in_polygon", "point_to_polygon_distance",
                     "polylabel", "find_interior_point"}
     /\ Len(vertices) < 3)
        => Outcome.kind = "ok"

\* The segments of the list v that have zero length.
ZeroLengthSegments(v) == {i \in 1..(Len(v) - 1) : v[i] = v[i + 1]}

PointDistance(p, a) == Sqrt(RAdd(RSq(RSub(p[1], a[1])), RSq(RSub(p[2], a[2]))))

\* C12: on a list with a repeated consecutive vertex
\* point_to_polygon_distance returns without error; the zero-length segment
\* counts with the distance from the point to that vertex, and the value
\* returned is the least distance over all segments.
C12_ZeroLengthSegment ==
    (call.op = "point_to_polygon_distance" /\ ZeroLengthSegments(vertices) # {}) =>
        LET segs == 1..(Len(vertices) - 1)
            d(i) == IF i \in ZeroLengthSegments(vertices)
                    THEN PointDistance(ArgPoint, vertices[i])
                    ELSE RefSegmentDistance(ArgPoint, vertices[i], vertices[i + 1])
        IN  /\ Outcome.kind = "ok"
            /\ \A i \in ZeroLengthSegments(vertices) :
                  SegmentDistance(call.x, call.y, vertices[i], vertices[i + 1])
                      = PointDistance(ArgPoint, vertices[i])
            /\ \A i \in segs : DLe(Outcome.val, d(i))
            /\ \E i \in segs : Outcome.val = d(i)

\* The repeated vertex is the nearest point of the list, at a positive
\* distance.
C12_Witness ==
    /\ call.op = "point_to_polygon_distance"
    /\ Len(vertices) >= 4
    /\ Outcome.kind = "ok"
    /\ DLt(FromRat(Zero), Outcome.val)
    /\ \E i \in ZeroLengthSegments(vertices) :
          /\ Outcome.val = PointDistance(ArgPoint, vertices[i])
          /\ \A j \in DOMAIN vertices :
                vertices[j] # vertices[i] =>
                    DLt(Outcome.val, PointDistance(ArgPoint, vertices[j]))

\* A step that leaves the vertex list and the arguments alone and, once the
\* call has returned, repeats its result.
PureStep ==
    /\ vertices' = vertices
    /\ call' = call
    /\ result[1] # "none" => result' = result

Trace(c) == connections[c].trace

Called(c, m) == \E i \in DOMAIN Trace(c) : Trace(c)[i].m = m

\* How many times the method m was called on the connection c.
Count(c, m) == Cardinality({i \in DOMAIN Trace(c) : Trace(c)[i].m = m})

\* The connection c was opened and close() has not been called on it.
IsOpen(c) == Trace(c) # <<>> /\ ~Called(c, "close")

\* The driver calls of the body of the with statement.
BodyCalls == {"cursor", "execute", "fetchall", "nextset", "commit"}

\* The thread t is at the end of a call that opened a connection.
Finished(t) == session[t].pc = "return" /\ session[t].connection # 0

\* C14 as stated, its rollback clause: rollback() is called only after a
\* driver call of the body raised.
C14_RollbackOnlyIfBodyRaised ==
    \A c \in DOMAIN connections :
        Called(c, "rollback") =>
            \E i \in DOMAIN Trace(c) : Trace(c)[i].m \in BodyCalls /\ ~Trace(c)[i].ok

\* C14, amended: a connection that get_connection opened is closed, once,
\* as the last driver call before the function returns, on the success path
\* and on every error path; rollback() is called exactly when an exception
\* was raised after the connection was opened (by the body or by setting
\* autocommit), directly after the call that raised and directly before
\* close(), and the function then returns from its except clause; no
\* connection is open unless a call in flight holds it.
C14_ConnectionProtocol ==
    /\ \A c \in DOMAIN connections :
          /\ IsOpen(c) => \E t \in Threads :
                              /\ session[t].connection = c
                              /\ session[t].pc \notin {"idle", "return"}
          /\ Trace(c) # <<>> => Trace(c)[1].m = "connect"
          /\ Count(c, "close") <= 1
          /\ Count(c, "rollback") <= 1
          /\ \A i \in DOMAIN Trace(c) :
                /\ Trace(c)[i].m = "close" => i = Len(Trace(c))
                /\ Trace(c)[i].m = "rollback" => (i > 1 /\ ~Trace(c)[i - 1].ok)
                /\ ~Trace(c)[i].ok =>
                      (i < Len(Trace(c)) => Trace(c)[i + 1].m = "rollback")
    /\ \A t \in Threads :
          Finished(t) =>
              LET c == session[t].connection
                  n == Len(Trace(c))
              IN  /\ Trace(c)[n].m = "close"
                  /\ Called(c, "rollback") <=> session[t].exc # "none"
                  /\ Called(c, "rollback") => Trace(c)[n - 1].m = "rollback"
                  /\ session[t].exc # "none" =>
                        session[t].ret = ErrorValue(session[t].op, session[t].exc,
                                                    session[t].result_info)

\* A call returns after execute raised: rolled back, then closed, while the
\* other thread holds a connection of its own.
C14_Witness ==
    \E t, u \in Threads :
        /\ t # u
        /\ Finished(t)
        /\ session[t].exc # "none"
        /\ \E i \in DOMAIN Trace(session[t].connection) :
              /\ Trace(session[t].connection)[i].m = "execute"
              /\ ~Trace(session[t].connection)[i].ok
        /\ Called(session[t].connection, "close")
        /\ session[u].connection # 0
        /\ IsOpen(session[u].connection)

\* The text of q is empty or made of blanks only.
EmptyOrBlank(q) == ~q.none /\ \A i \in DOMAIN q.text : q.text[i] = " "

\* C15: in a call with CToggle False, or with an empty or all-blank query
\* or command text, no connection is opened and no driver call is made:
\* the call is at its return with run_query's message string, run_command's
\* feedback with success False and rows affected None, or an empty tree.
C15_GuardsOpenNothing ==
    \A t \in Threads :
        LET s == session[t]
        IN  (s.op # "none" /\ (~s.CToggle \/ EmptyOrBlank(s.Query))) =>
                /\ s.pc = "return"
                /\ s.connection = 0
                /\ s.exc = "none"
                /\ \A c \in DOMAIN connections :
                      \A i \in DOMAIN Trace(c) : Trace(c)[i].by # t
                /\ s.op = "run_query" =>
                      s.ret = Str(IF ~s.CToggle
                                  THEN "CToggle is False. No connection attempted."
                                  ELSE "Error: Query cannot be empty.")
                /\ s.op = "run_command" =>
                      /\ s.ret.type = "feedback"
                      /\ s.ret.success = FALSE
                      /\ s.ret.rows_affected = "None"
                /\ s.op \in {"run_query_to_tree", "get_query_headers"} =>
                      s.ret = Tree(<<>>)

\* run_command with CToggle True and a command of blanks, after a call of
\* the same thread that used a connection.
C15_Witness ==
    \E t \in Threads :
        /\ session[t].op = "run_command"
        /\ session[t].CToggle
        /\ session[t].Query = Text(<<" ", " ">>)
        /\ session[t].pc = "return"
        /\ \E c \in DOMAIN connections : Trace(c) = <<>>

\* The place of the call of m in the trace of c (0 when m was not called).
IndexOf(c, m) ==
    IF Called(c, m) THEN CHOOSE i \in DOMAIN Trace(c) : Trace(c)[i].m = m ELSE 0

\* C16: run_command calls commit() exactly once, directly after execute(),
\* whenever execute() raised nothing; when connect or execute() raises,
\* commit() is never called, the connection (if there is one) is rolled
\* back, and the function returns its feedback string, with success False,
\* instead of raising.
C16_CommitOnceAfterExecute ==
    /\ \A c \in DOMAIN connections :
          \A i \in DOMAIN Trace(c) :
              Trace(c)[i].m = "commit" =>
                  /\ i > 1
                  /\ Trace(c)[i - 1] = Event("execute", Trace(c)[i].by, TRUE)
                  /\ session[Trace(c)[i].by].op = "run_command"
    /\ \A t \in Threads :
          LET s == session[t]
              c == s.connection
          IN  (s.op = "run_command" /\ s.pc = "return") =>
                  /\ s.ret.type = "feedback"
                  /\ c = 0 => s.ret.success = FALSE
                  /\ (c # 0 /\ Called(c, "execute")) =>
                        IF Trace(c)[IndexOf(c, "execute")].ok
                        THEN /\ Count(c, "commit") = 1
                             /\ IndexOf(c, "commit") = IndexOf(c, "execute") + 1
                        ELSE /\ Count(c, "commit") = 0
                             /\ Called(c, "rollback")
                             /\ s.ret.success = FALSE
                  /\ (c # 0 /\ ~Called(c, "execute")) => Count(c, "commit") = 0

\* run_command returns after execute() and commit() both succeeded.
C16_Witness ==
    \E t \in Threads :
        /\ session[t].op = "run_command"
        /\ Finished(t)
        /\ session[t].ret.type = "feedback"
        /\ session[t].ret.success
        /\ Count(session[t].connection, "commit") = 1
        /\ ~Called(session[t].connection, "rollback")

C18_IndexedValueWraparound ==
    call.op = "get_indexed_value" =>
        LET p == call.param_list
            d == call.default
        IN  IF p = PyNone THEN Outcome = Ok(d)
            ELSE IF p.type # "list" THEN Outcome = Ok(p)
            ELSE IF p.items = <<>> THEN Outcome = Ok(d)
            ELSE LET item == p.items[(call.index % Len(p.items)) + 1]
                 IN  Outcome = Ok(IF item = PyNone THEN d ELSE item)

\* The grid points of polylabel(v, precision) that satisfy point_in_polygon.
InsideGrid(v, precision) == {g \in GridOf(v, precision) : IsInside(g, v)}

DistanceOf(p, v) == point_to_polygon_distance(p[1], p[2], v).val

\* C19: when some grid point is inside, the distance polylabel returns is
\* point_to_polygon_distance of the point it returns, that point is an
\* inside grid point, and no inside grid point has a greater distance.
C19_PolylabelDistanceIsMaximum ==
    (/\ call.op = "polylabel"
     /\ Outcome.kind = "ok"
     /\ InsideGrid(vertices, call.precision) # {})
        => /\ Outcome.val[1] \in InsideGrid(vertices, call.precision)
           /\ Outcome.val[2] = DistanceOf(Outcome.val[1], vertices)
           /\ \A g \in InsideGrid(vertices, call.precision) :
                 DLe(DistanceOf(g, vertices), Outcome.val[2])

\* Inside grid points at different distances; the one returned is farther
\* from the boundary than another one.
C19_Witness ==
    /\ call.op = "polylabel"
    /\ Outcome.kind = "ok"
    /\ IsSimple(Body(vertices))
    /\ \E g \in InsideGrid(vertices, call.precision) :
          /\ DLt(DistanceOf(g, vertices), Outcome.val[2])
          /\ DLt(FromRat(Zero), DistanceOf(g, vertices))

\* p comes before q, or is q, in the order of the scan: rows of growing y,
\* each row by growing x.
ScannedNoLater(p, q) == RLt(p[2], q[2]) \/ (p[2] = q[2] /\ RLe(p[1], q[1]))

RECURSIVE Samples(_, _, _)
Samples(lo, hi, c) ==
    IF ~RLe(lo, hi) THEN 0 ELSE 1 + Samples(RAdd(lo, c), hi, c)

\* q is a whole number >= 0.
IsWhole(q) == q[2] = 1 /\ q[1] >= 0

\* C22: the step of polylabel's grid is the greater of the precision and
\* one twentieth of the shorter side of the bounding box: it is not smaller
\* than the precision, the scan takes at most 21 samples along the shorter
\* side, and a grid point that polylabel returns lies a whole number of
\* steps from the minimum corner.
C22_GridStep ==
    (call.op = "polylabel" /\ Outcome.kind = "ok") =>
        LET b == BoundingBox(vertices)
            width == RSub(b.max_x, b.min_x)
            height == RSub(b.max_y, b.min_y)
            c == CellSize(vertices, call.precision)
            p == Outcome.val[1]
        IN  /\ RLe(call.precision, c)
            /\ RLe(width, RMul(Num(20), c)) \/ RLe(height, RMul(Num(20), c))
            /\ \/ c = call.precision
               \/ RMul(Num(20), c) = width /\ RLe(width, height)
               \/ RMul(Num(20), c) = height /\ RLe(height, width)
            /\ IF RLe(width, height)
               THEN Samples(b.min_x, b.max_x, c) <= 21
               ELSE Samples(b.min_y, b.max_y, c) <= 21
            /\ DLt(FromRat(Zero), Outcome.val[2]) =>
                  /\ IsWhole(RDiv(RSub(p[1], b.min_x), c))
                  /\ IsWhole(RDiv(RSub(p[2], b.min_y), c))

\* The square of side 10 with the default precision: the step is 10 / 20,
\* greater than the precision, and each side takes 21 samples.
C22_Witness ==
    /\ call.op = "polylabel"
    /\ Outcome.kind = "ok"
    /\ RLt(call.precision, CellSize(vertices, call.precision))
    /\ Samples(BoundingBox(vertices).min_x, BoundingBox(vertices).max_x,
               CellSize(vertices, call.precision)) = 21
    /\ Outcome.val = <<<<Num(5), Num(5)>>, FromRat(Num(5))>>

\* The locals of point_in_polygon before the first edge, with the flag f.
PipStart(f) == [inside |-> f, xinters |-> Zero, bound |-> FALSE, err |-> "none"]

\* The ring v with its first vertex repeated as the last.
Closed(v) == Append(v, v[1])

\* C23: point_in_polygon returns for an open ring what it returns for the
\* same ring closed, at every test point; the extra edge that the closed
\* ring gets from the modulo index joins the first vertex to itself and
\* leaves the flag as it is.
C23_OpenAndClosedAgree ==
    (call.op = "point_in_polygon" /\ Len(vertices) >= 2) =>
        /\ Outcome = point_in_polygon(call.x, call.y, Closed(vertices))
        /\ \A f \in BOOLEAN :
              PipEdge(call.x, call.y, vertices[1], vertices[1], PipStart(f))
                  = PipStart(f)

\* A point inside an open quadrilateral whose ray crosses the edge from the
\* last vertex back to the first.
C23_Witness ==
    /\ call.op = "point_in_polygon"
    /\ Len(vertices) = 4
    /\ IsSimple(vertices)
    /\ Outcome = Ok(TRUE)
    /\ PipEdge(call.x, call.y, vertices[4], vertices[1], PipStart(FALSE)).inside

\* The ends of the i-th edge that point_in_polygon takes on the list v.
EdgeStart(v, i) == v[i]
EdgeEnd(v, i) == v[(i % Len(v)) + 1]

\* The test of lines 458-459 for the edge (p1, p2) at the height y.
InBracket(y, p1, p2) == RLt(RMin(p1[2], p2[2]), y) /\ RLe(y, RMax(p1[2], p2[2]))

\* The edges of v that are not horizontal and that the ray from (x, y)
\* towards growing x meets.
CrossedEdges(x, y, v) ==
    {i \in DOMAIN v :
        LET p1 == EdgeStart(v, i)
            p2 == EdgeEnd(v, i)
        IN  /\ p1[2] # p2[2]
            /\ InBracket(y, p1, p2)
            /\ RLe(x, RMax(p1[1], p2[1]))
            /\ \/ p1[1] = p2[1]
               \/ RLe(x, RAdd(RDiv(RMul(RSub(y, p1[2]), RSub(p2[1], p1[1])),
                                   RSub(p2[2], p1[2])), p1[1]))}

\* C24: an edge that passes the Y bracket is not horizontal, so the
\* division never divides by zero and xinters is assigned before it is
\* read: point_in_polygon raises nothing on a non-empty list, each edge
\* that passes the bracket assigns xinters in that pass, and the flag is
\* toggled once for every non-horizontal edge the ray meets and never for
\* a horizontal or zero-length edge.
C24_BracketExcludesHorizontalEdges ==
    (call.op = "point_in_polygon" /\ Len(vertices) >= 1) =>
        /\ \A i \in DOMAIN vertices :
              LET p1 == EdgeStart(vertices, i)
                  p2 == EdgeEnd(vertices, i)
                  st == PipEdge(call.x, call.y, p1, p2, PipStart(FALSE))
              IN  /\ InBracket(call.y, p1, p2) => p1[2] # p2[2]
                  /\ st.err = "none"
                  /\ p1[2] = p2[2] => st = PipStart(FALSE)
                  /\ st.inside => st.bound \/ p1[1] = p2[1]
        /\ Outcome = Ok(Cardinality(CrossedEdges(call.x, call.y, vertices)) % 2 = 1)

\* A point inside a ring that has a zero-length edge and a horizontal edge
\* at the height of the point, to the right of it or above it.
C24_Witness ==
    /\ call.op = "point_in_polygon"
    /\ Outcome = Ok(TRUE)
    /\ \E i \in DOMAIN vertices : EdgeStart(vertices, i) = EdgeEnd(vertices, i)
    /\ \E i \in DOMAIN vertices :
          /\ EdgeStart(vertices, i) # EdgeEnd(vertices, i)
          /\ EdgeStart(vertices, i)[2] = call.y
          /\ EdgeEnd(vertices, i)[2] = call.y
          /\ RLe(call.x, RMax(EdgeStart(vertices, i)[1], EdgeEnd(vertices, i)[1]))

\* C25: point_to_polygon_distance takes the segments (v[i], v[i+1]) of the
\* list and no segment from the last vertex back to the first: for an open
\* ring the result is the least distance to those n-1 segments, the result
\* for the same ring closed is the lesser of that and the distance to the
\* closing edge, and so it is never greater than the result for the open
\* ring.
C25_OpenRingLacksClosingEdge ==
    (call.op = "point_to_polygon_distance" /\ Len(vertices) >= 2) =>
        LET n == Len(vertices)
            d == Outcome.val
            closing == RefSegmentDistance(ArgPoint, vertices[n], vertices[1])
            closed == point_to_polygon_distance(call.x, call.y, Closed(vertices))
        IN  /\ Outcome.kind = "ok"
            /\ \A i \in 1..(n - 1) :
                  DLe(d, RefSegmentDistance(ArgPoint, vertices[i], vertices[i + 1]))
            /\ \E i \in 1..(n - 1) :
                  d = RefSegmentDistance(ArgPoint, vertices[i], vertices[i + 1])
            /\ closed = Ok(DMin(d, closing))
            /\ DLe(closed.val, d)

\* A point nearer to the closing edge of an open quadrilateral than to any
\* of its three segments: the result is greater than for the closed ring.
C25_Witness ==
    /\ call.op = "point_to_polygon_distance"
    /\ Len(vertices) = 4
    /\ IsSimple(vertices)
    /\ Outcome.kind = "ok"
    /\ DLt(point_to_polygon_distance(call.x, call.y, Closed(vertices)).val,
           Outcome.val)

\* The point p lies in the bounding box b.
InBox(p, b) ==
    /\ RLe(b.min_x, p[1]) /\ RLe(p[1], b.max_x)
    /\ RLe(b.min_y, p[2]) /\ RLe(p[2], b.max_y)

\* C26: the bounding box polylabel scans contains every vertex of the ring
\* it was given, closed or open, called directly or by find_interior_point,
\* and the point it returns lies in that box.
C26_BoxContainsEveryVertex ==
    (/\ call.op \in {"polylabel", "find_interior_point"}
     /\ Len(vertices) >= 2
     /\ Outcome.kind = "ok"
     /\ call.op = "find_interior_point" => Outcome.val[2] = "polylabel")
        => /\ \A i \in DOMAIN vertices : InBox(vertices[i], BoundingBox(vertices))
           /\ InBox(Outcome.val[1], BoundingBox(vertices))

\* C28: polylabel returns the distance 0 only when no scanned grid point
\* satisfied point_in_polygon, and then the point is the midpoint of the
\* bounding box; when a grid point was accepted the distance returned is
\* greater than 0.
C28_ZeroDistanceIsSentinel ==
    (call.op = "polylabel" /\ Outcome.kind = "ok") =>
        LET b == BoundingBox(vertices)
        IN  /\ Outcome.val[2] = FromRat(Zero) =>
                  /\ ~AnyInside(vertices, call.precision)
                  /\ Outcome.val[1] = <<RDiv(RAdd(b.min_x, b.max_x), Num(2)),
                                        RDiv(RAdd(b.min_y, b.max_y), Num(2))>>
            /\ AnyInside(vertices, call.precision) =>
                  DLt(FromRat(Zero), Outcome.val[2])

\* C27: polylabel ends for every ring of at least 2 vertices and every
\* precision, zero and negative included, and for a bounding box without
\* width or height: the step of the grid is greater than 0.
C27_PolylabelTerminates ==
    (result[1] = "polylabel" /\ Len(vertices) >= 2) =>
        /\ RLt(Zero, CellSize(vertices, call.precision))
        /\ Outcome.kind # "hang"

\* The call of m on the connection c returned without raising.
Succeeded(c, m) == \E i \in DOMAIN Trace(c) : Trace(c)[i] = Event(m, Trace(c)[1].by, TRUE)

\* C29: run_command returns "Success: True" only when execute() and
\* commit() both returned without error; when connect, execute() or
\* commit() raised, the feedback has Success: False and the error message.
C29_SuccessOnlyIfCommitted ==
    \A t \in Threads :
        LET s == session[t]
        IN  (s.op = "run_command" /\ s.pc = "return") =>
                /\ s.ret.type = "feedback"
                /\ s.ret.success =>
                      /\ s.connection # 0
                      /\ Succeeded(s.connection, "execute")
                      /\ Succeeded(s.connection, "commit")
                      /\ s.exc = "none"
                /\ s.exc # "none" =>
                      /\ ~s.ret.success
                      /\ s.ret.message = ErrorMessage(s.op, s.exc)

\* The methods called on the connection c, in order.
Methods(c) == [i \in DOMAIN Trace(c) |-> Trace(c)[i].m]

\* C30: run_query never calls commit(): its connection is opened, set to
\* autocommit off and closed before the function returns, on every path,
\* and a statement that is not a SELECT returns "Query executed
\* successfully. Rows affected: n" after connect, cursor(), execute() and
\* close() alone.
C30_RunQueryNeverCommits ==
    \A t \in Threads :
        LET s == session[t]
            c == s.connection
        IN  (s.op = "run_query" /\ c # 0) =>
                /\ ~Called(c, "commit")
                /\ Len(Trace(c)) >= 2 => Trace(c)[2].m = "autocommit"
                /\ s.pc = "return" => Trace(c)[Len(Trace(c))].m = "close"
                /\ (s.pc = "return" /\ s.exc = "none" /\ ~IsSelect(s.Query)) =>
                      /\ s.ret = Str("Query executed successfully. Rows affected: ")
                      /\ Methods(c) = <<"connect", "autocommit", "cursor",
                                        "execute", "close">>
                      /\ \A i \in DOMAIN Trace(c) : Trace(c)[i].ok

\* run_query returns the success message for a statement that is not a
\* SELECT; its connection is closed and was never committed.
C30_Witness ==
    \E t \in Threads :
        /\ session[t].op = "run_query"
        /\ session[t].pc = "return"
        /\ session[t].connection # 0
        /\ Called(session[t].connection, "execute")
        /\ ~IsSelect(session[t].Query)
        /\ session[t].ret = Str("Query executed successfully. Rows affected: ")
        /\ Called(session[t].connection, "close")
        /\ ~Called(session[t].connection, "commit")

\* The whole part of the rational q >= 0.
Floor(q) == q[1] \div q[2]

\* The points (min_x + i * c, min_y + j * c), i, j >= 0, of the bounding
\* box of v, in rows of growing y and each row by growing x.
GridSeq(v, precision) ==
    LET b == BoundingBox(v)
        c == CellSize(v, precision)
        columns == Floor(RDiv(RSub(b.max_x, b.min_x), c)) + 1
        rows == Floor(RDiv(RSub(b.max_y, b.min_y), c)) + 1
    IN  [k \in 1..(columns * rows) |->
            <<RAdd(b.min_x, RMul(Num((k - 1) % columns), c)),
              RAdd(b.min_y, RMul(Num((k - 1) \div columns), c))>>]

\* The body of polylabel's inner loop applied to the points of s from the
\* k-th to the last-th, in their order, up to the first error.
RECURSIVE VisitFrom(_, _, _, _, _)
VisitFrom(s, k, last, best, v) ==
    IF k > last \/ best.err # "none" THEN best
    ELSE VisitFrom(s, k + 1, last, Visit(s[k][1], s[k][2], best, v), v)

\* The same for all the points of s, taken in runs of the given length, from
\* the run of number r on.
RECURSIVE VisitAll(_, _, _, _, _)
VisitAll(s, r, length, best, v) ==
    IF r * length >= Len(s) \/ best.err # "none" THEN best
    ELSE VisitAll(s, r + 1, length,
                  VisitFrom(s, r * length + 1, (r + 1) * length, best, v), v)

====
